---- MODULE Spec2Model ----
(***************************************************************************)
(* Model of egg-mode's cursored pagination engine (src/src/cursor.rs):     *)
(* the CursorIter struct, its manual paging interface (with_page_size,     *)
(* call, direct writes of the public cursor fields) and its Stream         *)
(* implementation (poll_next), driven against a transport that serves a    *)
(* finite chain of pages and may fail; and of two request functions of     *)
(* src/src/tweet/fun.rs, retweets_of and lookup_map.                       *)
(*                                                                         *)
(* Scope.  A request resolves in a step of the transport, so the poll that *)
(* sends a request finds it pending.  The caller writes a cursor field at  *)
(* most once between construction or reset and the next reset; the         *)
(* page_size field is changed through with_page_size only.  Pages are      *)
(* requested forward: the cursor sent is absent or a next-page id.         *)
(***************************************************************************)
EXTENDS Integers, Sequences, FiniteSets, TLC

(***************************************************************************)
(* Bounds of the model.                                                    *)
(***************************************************************************)
MaxPages == 2       \* pages a listing may have
MaxItems == 2       \* items a page may have
MaxFetches == 3     \* requests the transport accepts in one behaviour

\* page size the endpoint wrappers construct sized cursors with
DefaultPageSize == 100

(***************************************************************************)
(* Option<T>: None and Some(x), as sequences of length at most one.        *)
(***************************************************************************)
None == << >>
Some(x) == << x >>
IsSome(o) == o # None
Unwrap(o) == o[1]

VARIABLES
    \* CursorIter fields
    link, token, params_base, page_size, previous_cursor, next_cursor,
    loader, iter,
    \* the transport and the remote listing
    pages, sent,
    \* what the caller has observed:
    \*   ret          the value the last operation returned
    \*   yielded      the items pulled since construction or the last reset,
    \*                while no cursor field was written
    \*   outstanding  requests sent by pulls whose outcome no pull has taken
    \*   failed       a pull returned an error since construction or reset
    \*   tampered     a cursor field was written since construction or reset
    \*   failedReq    the request of the last failed pull, until the next one
    \*   startedAt    the cursor fields when the pending request was sent, if
    \*                none was written since
    \*   fetched      the requests pulls have sent since construction or reset
    \*   lastPage     the page a pull has last received since construction or
    \*                reset, 0 when none
    ret, yielded, outstanding, failed, tampered, failedReq, startedAt,
    \*   abandoned    the requests whose fetch with_page_size has dropped from
    \*                the loader
    \*   written      the value written to next_cursor while the loader was
    \*                empty, until a pull takes a page or the engine is reset
    fetched, lastPage, abandoned, written

engine == <<link, token, params_base, page_size, previous_cursor,
            next_cursor, loader, iter>>
transport == <<pages, sent>>
observed == <<ret, yielded, outstanding, failed, tampered, failedReq,
              startedAt, fetched, lastPage,
                        abandoned, written>>
vars == <<engine, transport, observed>>

(***************************************************************************)
(* Cursor trait: parameter names and NonZeroI64 page ids.                  *)
(***************************************************************************)
COUNT_PARAMETER_NAME == "count"
STARTING_CURSOR_PARAMETER_NAME == "cursor"

\* (faulty variant: zero is kept as a page id)
NonZeroI64New_KeepZero(n) == Some(n)

\* NonZeroI64::new: zero has no NonZeroI64
NonZeroI64New(n) == IF n = 0 THEN None ELSE Some(n)

\* impl Cursor for UserCursor / IDCursor / ListCursor
previous_cursor_id(page) == NonZeroI64New(page.previous_cursor)
\* (faulty variant: the next id read from the previous_cursor field)
next_cursor_id_FromPrevious(page) == NonZeroI64New(page.previous_cursor)
next_cursor_id(page) == NonZeroI64New(page.next_cursor)
into_inner(page) == page.items

(***************************************************************************)
(* ParamList: a map from parameter names to string values.                 *)
(***************************************************************************)
EmptyParams == [k \in {} |-> ""]
AddParam(p, k, v) == [x \in DOMAIN p \cup {k} |-> IF x = k THEN v ELSE p[x]]
AddOptParam(p, k, ov) == IF ov = None THEN p ELSE AddParam(p, k, Unwrap(ov))
\* Option<T: Display> -> Option<String>
MapString(o) == IF o = None THEN None ELSE Some(ToString(Unwrap(o)))

(***************************************************************************)
(* The transport (get + request_with_json_response) and the remote         *)
(* listing.  pages[i] is the number of items of page i.  Page 1 is served  *)
(* for a request without starting cursor and page i for the cursor i.  Any *)
(* request may fail.                                                       *)
(***************************************************************************)
\* a listing has pages of k items, some of which may be empty
Layouts == UNION {[1..n -> {0, k}] : n \in 1..MaxPages, k \in 1..MaxItems}
PageCount == Len(pages)
PageItems(i) == [k \in 1..pages[i] |-> 10 * i + k]
RawPage(i) ==
    [previous_cursor |-> IF i = 1 THEN 0 ELSE -i,
     next_cursor     |-> IF i = PageCount THEN 0 ELSE i + 1,
     items           |-> PageItems(i)]
\* the cursor values the listing hands out for the next page
Cursors == 2..PageCount
ParseI64(s) == CHOOSE c \in Cursors : ToString(c) = s
RequestedPage(params) ==
    IF STARTING_CURSOR_PARAMETER_NAME \in DOMAIN params
    THEN ParseI64(params[STARTING_CURSOR_PARAMETER_NAME])
    ELSE 1
\* Response<T>: the decoded page with the rate-limit snapshot of the request
ServerResponse(fut) ==
    [rate_limit_status |-> fut.id,
     response          |-> RawPage(RequestedPage(fut.params))]
\* Result<Response<T>>
Ok(v) == [ok |-> TRUE, resp |-> v, err |-> 0]
Err(e) == [ok |-> FALSE, resp |-> None, err |-> e]

(***************************************************************************)
(* CursorIter::call: the request for the page at next_cursor.              *)
(***************************************************************************)
\* (faulty variant: the page size is sent under the name of the starting cursor)
CallParams_SameName(base, cursor, size) ==
    AddOptParam(
        AddOptParam(IF base = None THEN EmptyParams ELSE Unwrap(base),
                    STARTING_CURSOR_PARAMETER_NAME, MapString(cursor)),
        STARTING_CURSOR_PARAMETER_NAME, MapString(size))

CallParams(base, cursor, size) ==
    AddOptParam(
        AddOptParam(IF base = None THEN EmptyParams ELSE Unwrap(base),
                    STARTING_CURSOR_PARAMETER_NAME, MapString(cursor)),
        COUNT_PARAMETER_NAME, MapString(size))
\* (faulty variant: the starting cursor is taken from previous_cursor)
call_FromPrevious ==
    [id |-> sent + 1,
     link |-> link,
     token |-> token,
     params |-> CallParams(params_base, previous_cursor, page_size),
     result |-> None]

\* the future returned by call(), not yet resolved
call == [id |-> sent + 1,
         link |-> link,
         token |-> token,
         params |-> CallParams(params_base, next_cursor, page_size),
         result |-> None]

(***************************************************************************)
(* What an operation returned to the caller.                               *)
(***************************************************************************)
Returned(op, arg, kind, item, err, req) ==
    [op |-> op, arg |-> arg, kind |-> kind, item |-> item, err |-> err,
     req |-> req]
\* Poll<Option<Result<Response<T::Item>>>>, with the request the poll sent
PollPendingValue(req) == Returned("poll_next", 0, "Pending", None, 0, req)
PollReadyNone == Returned("poll_next", 0, "End", None, 0, None)
PollReadyItem(item) == Returned("poll_next", 0, "Item", Some(item), 0, None)
PollReadyErr(e) == Returned("poll_next", 0, "Err", None, e, None)

(***************************************************************************)
(* CursorIter::new, as called by the endpoint wrappers.                    *)
(***************************************************************************)
Endpoints ==
    { [link |-> "statuses/retweeters/ids",
       params_base |-> Some(AddParam(EmptyParams, "id", ToString(7))),
       page_size |-> None],
      [link |-> "followers/list",
       params_base |-> None,
       page_size |-> Some(DefaultPageSize)] }

Init ==
    /\ \E e \in Endpoints :
          /\ link = e.link
          /\ params_base = e.params_base
          /\ page_size = e.page_size
    /\ token = "token"
    /\ previous_cursor = None
    /\ next_cursor = None
    /\ loader = None
    /\ iter = None
    /\ pages \in Layouts
    /\ sent = 0
    /\ ret = Returned("new", 0, "None", None, 0, None)
    /\ yielded = << >>
    /\ outstanding = 0
    /\ failed = FALSE
    /\ tampered = FALSE
    /\ failedReq = None
    /\ startedAt = None
    /\ fetched = 0
    /\ lastPage = 0
    /\ abandoned = {}
    /\ written = None

(***************************************************************************)
(* Stream::poll_next, branch by branch.  Each branch gives the engine's    *)
(* fields, the requests sent and the value returned.                       *)
(***************************************************************************)
\* (faulty variant: a pending loader is dropped and a new request is sent)
LoaderPending_Refetch ==
    /\ loader # None
    /\ Unwrap(loader).result = None
    /\ sent < MaxFetches
    /\ loader' = Some(call)
    /\ sent' = sent + 1
    /\ ret' = PollPendingValue(Some(call.params))
    /\ UNCHANGED <<link, token, params_base, page_size, previous_cursor,
                   next_cursor, iter>>

\* (faulty variant: the pending future taken out of the loader is not put back)
LoaderPending_DropsFuture ==
    /\ loader # None
    /\ Unwrap(loader).result = None
    /\ loader' = None
    /\ ret' = PollPendingValue(None)
    /\ UNCHANGED <<link, token, params_base, page_size, previous_cursor,
                   next_cursor, iter, sent>>

\* the loader is still pending: put it back and return Poll::Pending
LoaderPending ==
    /\ loader # None
    /\ Unwrap(loader).result = None
    /\ ret' = PollPendingValue(None)
    /\ UNCHANGED <<engine, sent>>

\* (faulty variant: every item counts one off the snapshot of the item before it)
Flatten_CountDown(resp) ==
    [k \in 1..Len(into_inner(resp.response)) |->
        [rate_limit_status |-> resp.rate_limit_status - (k - 1),
         response          |-> into_inner(resp.response)[k]]]

\* the items of a page, each with the rate-limit snapshot of its response
Flatten(resp) ==
    [k \in 1..Len(into_inner(resp.response)) |->
        [rate_limit_status |-> resp.rate_limit_status,
         response          |-> into_inner(resp.response)[k]]]

\* (faulty variant: only next_cursor is taken from the page)
LoaderReadyOk_KeepsPrevious ==
    /\ loader # None
    /\ Unwrap(loader).result # None
    /\ Unwrap(Unwrap(loader).result).ok
    /\ LET resp == Unwrap(Unwrap(loader).result).resp
           items == Flatten(resp)
       IN  /\ next_cursor' = next_cursor_id(resp.response)
           /\ loader' = None
           /\ IF items # << >>
              THEN /\ iter' = Some(Tail(items))
                   /\ ret' = PollReadyItem(Head(items))
              ELSE /\ iter' = Some(<< >>)
                   /\ ret' = PollReadyNone
    /\ UNCHANGED <<link, token, params_base, page_size, previous_cursor,
                   sent>>

\* the loader resolved with a page: take its cursors, buffer its items and
\* return the first of them, or Ready(None) when the page has none
LoaderReadyOk ==
    /\ loader # None
    /\ Unwrap(loader).result # None
    /\ Unwrap(Unwrap(loader).result).ok
    /\ LET resp == Unwrap(Unwrap(loader).result).resp
           items == Flatten(resp)
       IN  /\ previous_cursor' = previous_cursor_id(resp.response)
           /\ next_cursor' = next_cursor_id(resp.response)
           /\ loader' = None
           /\ IF items # << >>
              THEN /\ iter' = Some(Tail(items))
                   /\ ret' = PollReadyItem(Head(items))
              ELSE /\ iter' = Some(<< >>)
                   /\ ret' = PollReadyNone
    /\ UNCHANGED <<link, token, params_base, page_size, sent>>

\* (faulty variant: an error clears the position, as a reset would)
LoaderReadyErr_Rewind ==
    /\ loader # None
    /\ Unwrap(loader).result # None
    /\ ~Unwrap(Unwrap(loader).result).ok
    /\ loader' = None
    /\ previous_cursor' = None
    /\ next_cursor' = None
    /\ ret' = PollReadyErr(Unwrap(Unwrap(loader).result).err)
    /\ UNCHANGED <<link, token, params_base, page_size, iter, sent>>

\* (faulty variant: the failed future is put back into the loader)
LoaderReadyErr_KeepLoader ==
    /\ loader # None
    /\ Unwrap(loader).result # None
    /\ ~Unwrap(Unwrap(loader).result).ok
    /\ ret' = PollReadyErr(Unwrap(Unwrap(loader).result).err)
    /\ UNCHANGED <<engine, sent>>

\* the loader resolved with an error: return it, the loader stays taken
LoaderReadyErr ==
    /\ loader # None
    /\ Unwrap(loader).result # None
    /\ ~Unwrap(Unwrap(loader).result).ok
    /\ loader' = None
    /\ ret' = PollReadyErr(Unwrap(Unwrap(loader).result).err)
    /\ UNCHANGED <<link, token, params_base, page_size, previous_cursor,
                   next_cursor, iter, sent>>

\* (faulty variant: the pull that serves the last buffered item starts the fetch of
\* the next page)
IterNext_Prefetch ==
    /\ loader = None
    /\ iter # None
    /\ \/ /\ Unwrap(iter) # << >>
          /\ iter' = Some(Tail(Unwrap(iter)))
          /\ ret' = PollReadyItem(Head(Unwrap(iter)))
          /\ IF Tail(Unwrap(iter)) = << >> /\ next_cursor # None
                /\ sent < MaxFetches
             THEN loader' = Some(call) /\ sent' = sent + 1
             ELSE UNCHANGED <<loader, sent>>
       \/ /\ Unwrap(iter) = << >>
          /\ next_cursor = None
          /\ iter' = iter
          /\ ret' = PollReadyNone
          /\ UNCHANGED <<loader, sent>>
    /\ UNCHANGED <<link, token, params_base, page_size, previous_cursor,
                   next_cursor>>

\* (faulty variant: an engine without results counts as drained)
IterNext_NoneIsDrained ==
    /\ loader = None
    /\ \/ /\ iter # None
          /\ Unwrap(iter) # << >>
          /\ iter' = Some(Tail(Unwrap(iter)))
          /\ ret' = PollReadyItem(Head(Unwrap(iter)))
       \/ /\ IF iter = None THEN TRUE ELSE Unwrap(iter) = << >>
          /\ next_cursor = None
          /\ iter' = iter
          /\ ret' = PollReadyNone
    /\ UNCHANGED <<link, token, params_base, page_size, previous_cursor,
                   next_cursor, loader, sent>>

\* no loader: serve the next buffered item, or end when the buffer is
\* drained and there is no next cursor
IterNext ==
    /\ loader = None
    /\ iter # None
    /\ \/ /\ Unwrap(iter) # << >>
          /\ iter' = Some(Tail(Unwrap(iter)))
          /\ ret' = PollReadyItem(Head(Unwrap(iter)))
       \/ /\ Unwrap(iter) = << >>
          /\ next_cursor = None
          /\ iter' = iter
          /\ ret' = PollReadyNone
    /\ UNCHANGED <<link, token, params_base, page_size, previous_cursor,
                   next_cursor, loader, sent>>

\* (faulty variant: a drained buffer starts a fetch whether or not there is a next
\* cursor)
StartLoader_Always ==
    /\ loader = None
    /\ IF iter = None THEN TRUE ELSE Unwrap(iter) = << >>
    /\ sent < MaxFetches
    /\ loader' = Some(call)
    /\ sent' = sent + 1
    /\ ret' = PollPendingValue(Some(call.params))
    /\ UNCHANGED <<link, token, params_base, page_size, previous_cursor,
                   next_cursor, iter>>

\* (faulty variant: the request started by a pull carries no starting cursor)
StartLoader_FromStart ==
    /\ loader = None
    /\ IF iter = None THEN TRUE
       ELSE Unwrap(iter) = << >> /\ next_cursor # None
    /\ sent < MaxFetches
    /\ loader' = Some([call EXCEPT
                    !.params = CallParams(params_base, None, page_size)])
    /\ sent' = sent + 1
    /\ ret' = PollPendingValue(Some(CallParams(params_base, None, page_size)))
    /\ UNCHANGED <<link, token, params_base, page_size, previous_cursor,
                   next_cursor, iter>>

\* (faulty variant: the request takes the base parameters out of the engine)
StartLoader_TakesParams ==
    /\ loader = None
    /\ IF iter = None THEN TRUE
       ELSE Unwrap(iter) = << >> /\ next_cursor # None
    /\ sent < MaxFetches
    /\ loader' = Some(call)
    /\ sent' = sent + 1
    /\ params_base' = None
    /\ ret' = PollPendingValue(Some(call.params))
    /\ UNCHANGED <<link, token, page_size, previous_cursor, next_cursor,
                   iter>>

\* nothing to serve: store the future of call() and poll it
StartLoader ==
    /\ loader = None
    /\ IF iter = None THEN TRUE
       ELSE Unwrap(iter) = << >> /\ next_cursor # None
    /\ sent < MaxFetches
    /\ loader' = Some(call)
    /\ sent' = sent + 1
    /\ ret' = PollPendingValue(Some(call.params))
    /\ UNCHANGED <<link, token, params_base, page_size, previous_cursor,
                   next_cursor, iter>>

poll_next ==
    \/ LoaderPending
    \/ LoaderReadyOk
    \/ LoaderReadyErr
    \/ IterNext
    \/ StartLoader

\* a pull of the stream by its consumer
Pull ==
    /\ poll_next
    /\ yielded' = IF ret'.kind = "Item" /\ ~tampered
                  THEN Append(yielded, Unwrap(ret'.item).response)
                  ELSE yielded
    /\ outstanding' = outstanding + (sent' - sent)
                       - (IF ret'.kind \in {"Item", "End", "Err"}
                             /\ loader # None THEN 1 ELSE 0)
    /\ failed' = (failed \/ ret'.kind = "Err")
    /\ failedReq' = IF ret'.kind = "Err"
                    THEN IF startedAt # None
                         THEN Some(Unwrap(loader).params) ELSE None
                    ELSE IF sent' # sent THEN None ELSE failedReq
    /\ startedAt' = IF sent' # sent
                    THEN Some(<<previous_cursor, next_cursor>>)
                    ELSE IF ret'.kind \in {"Item", "End"} THEN None
                    ELSE startedAt
    /\ fetched' = fetched + (sent' - sent)
    /\ lastPage' = IF loader # None /\ ret'.kind \in {"Item", "End"}
                   THEN RequestedPage(Unwrap(loader).params)
                   ELSE lastPage
    /\ written' = IF loader # None /\ ret'.kind \in {"Item", "End"}
                  THEN None ELSE written
    /\ UNCHANGED <<pages, tampered, abandoned>>

(***************************************************************************)
(* CursorIter::call used for manual paging: one request, whose result goes *)
(* to the caller.                                                          *)
(***************************************************************************)
\* (faulty variant: call() leaves its future in the loader, as poll_next does)
ManualCall_StoresLoader ==
    /\ sent < MaxFetches
    /\ sent' = sent + 1
    /\ loader' = Some(call)
    /\ \/ ret' = Returned("call", 0, "Ok", None, 0, Some(call.params))
       \/ ret' = Returned("call", 0, "Err", None, call.id, Some(call.params))
    /\ UNCHANGED <<link, token, params_base, page_size, previous_cursor,
                   next_cursor, iter, pages, yielded, outstanding, failed,
                   tampered, failedReq, startedAt, fetched, lastPage,
                        abandoned, written>>

ManualCall ==
    /\ sent < MaxFetches
    /\ sent' = sent + 1
    /\ \/ ret' = Returned("call", 0, "Ok", None, 0, Some(call.params))
       \/ ret' = Returned("call", 0, "Err", None, call.id, Some(call.params))
    /\ UNCHANGED <<engine, pages, yielded, outstanding, failed, tampered,
                   failedReq, startedAt, fetched, lastPage,
                        abandoned, written>>

(***************************************************************************)
(* CursorIter::with_page_size.                                             *)
(***************************************************************************)
\* (faulty variant: the size is set and the walk reset whether or not the engine was
\* constructed with a page size)
with_page_size_Unconditional(n) ==
    /\ page_size' = Some(n)
    /\ previous_cursor' = None
    /\ next_cursor' = None
    /\ loader' = None
    /\ iter' = None
    /\ UNCHANGED <<link, token, params_base>>

\* (faulty variant: the new size is stored, the position and the results are kept)
with_page_size_KeepPosition(n) ==
    IF page_size # None
    THEN /\ page_size' = Some(n)
         /\ UNCHANGED <<link, token, params_base, previous_cursor,
                        next_cursor, loader, iter>>
    ELSE UNCHANGED engine

\* (faulty variant: the reset keeps the fetch that is in the loader)
with_page_size_KeepsLoader(n) ==
    IF page_size # None
    THEN /\ page_size' = Some(n)
         /\ previous_cursor' = None
         /\ next_cursor' = None
         /\ iter' = None
         /\ UNCHANGED <<link, token, params_base, loader>>
    ELSE UNCHANGED engine

with_page_size(n) ==
    IF page_size # None
    THEN /\ page_size' = Some(n)
         /\ previous_cursor' = None
         /\ next_cursor' = None
         /\ loader' = None
         /\ iter' = None
         /\ UNCHANGED <<link, token, params_base>>
    ELSE UNCHANGED engine

\* the page sizes the caller asks for
PageSizeArgs == {5, 50}

WithPageSize ==
    \E n \in PageSizeArgs :
        /\ with_page_size(n)
        /\ ret' = Returned("with_page_size", n, "None", None, 0, None)
        /\ IF page_size # None
           THEN /\ yielded' = << >>
                /\ outstanding' = 0
                /\ failed' = FALSE
                /\ tampered' = FALSE
                /\ failedReq' = None
                /\ startedAt' = None
                /\ fetched' = 0
                /\ lastPage' = 0
                /\ written' = None
           ELSE UNCHANGED <<yielded, outstanding, failed, tampered,
                            failedReq, startedAt, fetched, lastPage,
                            written>>
        /\ abandoned' = IF page_size # None /\ loader # None
                        THEN abandoned \cup {Unwrap(loader).id}
                        ELSE abandoned
        /\ UNCHANGED transport

(***************************************************************************)
(* Direct writes of the public fields next_cursor and previous_cursor.     *)
(***************************************************************************)
NextCursorValues == {None} \cup {Some(c) : c \in Cursors}
PreviousCursorValues == {None} \cup {Some(-c) : c \in Cursors}

WriteNextCursor ==
    /\ ~tampered
    /\ \E v \in NextCursorValues : next_cursor' = v
    /\ written' = IF loader = None THEN Some(next_cursor') ELSE written
    /\ tampered' = TRUE
    /\ failedReq' = None
    /\ startedAt' = None
    /\ ret' = Returned("write", 0, "None", None, 0, None)
    /\ UNCHANGED <<link, token, params_base, page_size, previous_cursor,
                   loader, iter, transport, yielded, outstanding, failed,
                   fetched, lastPage, abandoned>>

WritePreviousCursor ==
    /\ ~tampered
    /\ \E v \in PreviousCursorValues : previous_cursor' = v
    /\ tampered' = TRUE
    /\ failedReq' = None
    /\ startedAt' = None
    /\ ret' = Returned("write", 0, "None", None, 0, None)
    /\ UNCHANGED <<link, token, params_base, page_size, next_cursor,
                   loader, iter, transport, yielded, outstanding, failed,
                   fetched, lastPage,
                        abandoned, written>>

(***************************************************************************)
(* The transport resolves the pending request of the loader.               *)
(***************************************************************************)
Resolve ==
    /\ loader # None
    /\ Unwrap(loader).result = None
    /\ LET fut == Unwrap(loader)
       IN  \/ loader' = Some([fut EXCEPT
                        !.result = Some(Ok(ServerResponse(fut)))])
           \/ loader' = Some([fut EXCEPT !.result = Some(Err(fut.id))])
    /\ UNCHANGED <<link, token, params_base, page_size, previous_cursor,
                   next_cursor, iter, pages, sent, observed>>

Next ==
    \/ Pull
    \/ ManualCall
    \/ WithPageSize
    \/ WriteNextCursor
    \/ WritePreviousCursor
    \/ Resolve

Spec == Init /\ [][Next]_vars

(***************************************************************************)
(* A consumer that only pulls, against a transport that resolves every     *)
(* request and fails only as long as requests are left for the pages still *)
(* to be fetched.                                                          *)
(***************************************************************************)
\* the transport resolves the pending request; it may fail it only when the
\* requests left after a retry still cover the pages not yet received
ResolveWithin ==
    /\ Resolve
    /\ ~Unwrap(Unwrap(loader').result).ok =>
          MaxFetches - sent >= PageCount - lastPage

NextWalk ==
    \/ Pull
    \/ ResolveWithin

\* the consumer keeps pulling and the transport resolves what is pending
SpecWalk ==
    /\ Init
    /\ [][NextWalk]_vars
    /\ WF_vars(Pull)
    /\ WF_vars(ResolveWithin)

(***************************************************************************)
(* tweet::retweets_of: one request for the retweets of a tweet, with the    *)
(* count the caller asked for brought into the range the endpoint serves.  *)
(***************************************************************************)
\* the largest count sent as asked, and the count sent otherwise
RetweetsCountLimit == 100
RetweetsCountDefault == 100

\* (faulty variant: a count of 0 is sent as it is)
RetweetsOfCount_ZeroKept(count) ==
    IF count > RetweetsCountLimit THEN RetweetsCountDefault ELSE count

RetweetsOfCount(count) ==
    IF count = 0 \/ count > RetweetsCountLimit
    THEN RetweetsCountDefault
    ELSE count

\* ParamList::extended_tweets
ExtendedTweets(p) == AddParam(p, "tweet_mode", "extended")
RetweetsOfParams(count) ==
    AddParam(ExtendedTweets(EmptyParams), "count",
             ToString(RetweetsOfCount(count)))

\* the counts callers pass: all around the range, and large ones
CountInputs == 0..(RetweetsCountLimit + 2) \cup {1000, 65536, 2147483647}

RetweetsOf ==
    \E count \in CountInputs :
        /\ sent < MaxFetches
        /\ sent' = sent + 1
        /\ \/ ret' = Returned("retweets_of", count, "Ok", None, 0,
                              Some(RetweetsOfParams(count)))
           \/ ret' = Returned("retweets_of", count, "Err", None, sent + 1,
                              Some(RetweetsOfParams(count)))
        /\ UNCHANGED <<engine, pages, yielded, outstanding, failed, tampered,
                       failedReq, startedAt, fetched, lastPage,
                        abandoned, written>>

\* retweets_of reads no CursorIter: the engine of these behaviours is one
\* engine as constructed, over one listing
InitRetweets == Init /\ page_size = None /\ pages = << 1 >>

NextRetweets == RetweetsOf

SpecRetweets == InitRetweets /\ [][NextRetweets]_vars

(***************************************************************************)
(* tweet::lookup_map: one request, whose JSON response is turned into a    *)
(* map from tweet ids to tweets.  The object under "id" is a sequence of   *)
(* key/value pairs with distinct keys, in the order the JSON map iterates. *)
(***************************************************************************)
MaxKeys == 2        \* keys the object under "id" may have

\* the keys a response may carry, and str::parse::<u64> on them
LookupKeys == {"1", "01", "2", "x"}
ParseU64(key) ==
    CASE key = "1"  -> Some(1)
      [] key = "01" -> Some(1)
      [] key = "2"  -> Some(2)
      [] OTHER      -> None

\* the JSON values a key may carry, and Tweet::deserialize on them
LookupValues == {"null", "{tweet a}", "{tweet b}", "[]"}
IsNull(val) == val = "null"
TweetDeserialize(val) ==
    CASE val = "{tweet a}" -> Some([text |-> "a"])
      [] val = "{tweet b}" -> Some([text |-> "b"])
      [] OTHER             -> None

LookupObjects ==
    {o \in UNION {[1..n -> LookupKeys \X LookupValues] : n \in 0..MaxKeys} :
        \A i, j \in 1..Len(o) : o[i][1] = o[j][1] => i = j}
\* the response body: without "id", with an "id" that is no object, or with
\* an object under "id"
LookupResponses ==
    {[id |-> k, obj |-> << >>] : k \in {"missing", "not an object"}}
        \cup {[id |-> "object", obj |-> o] : o \in LookupObjects}

\* Result<HashMap<u64, Option<Tweet>>>
LookupOk(map) == [ok |-> TRUE, map |-> map, err |-> ""]
LookupErr(e) == [ok |-> FALSE, map |-> << >>, err |-> e]
EmptyMap == [id \in {} |-> None]
Insert(map, id, v) ==
    [x \in DOMAIN map \cup {id} |-> IF x = id THEN v ELSE map[x]]

RECURSIVE LookupLoop(_, _, _)
\* the for loop over the object's pairs, from pair i on
LookupLoop(obj, i, map) ==
    IF i > Len(obj) THEN LookupOk(map)
    ELSE LET key == obj[i][1]
             val == obj[i][2]
             id == ParseU64(key)
         IN  IF id = None
             THEN LookupErr("InvalidResponse: could not parse id as integer")
             ELSE IF IsNull(val)
             THEN LookupLoop(obj, i + 1, Insert(map, Unwrap(id), None))
             ELSE IF TweetDeserialize(val) = None
             THEN LookupErr("DeserializeError")
             ELSE LookupLoop(obj, i + 1,
                             Insert(map, Unwrap(id), TweetDeserialize(val)))

lookup_map(resp) ==
    IF resp.id # "object"
    THEN LookupErr("InvalidResponse: unexpected response for lookup_map")
    ELSE LookupLoop(resp.obj, 1, EmptyMap)

\* one call of lookup_map: the request fails, or its response is read
LookupMap ==
    /\ sent = 0
    /\ sent' = sent + 1
    /\ \E resp \in LookupResponses :
          \/ ret' = [op |-> "lookup_map", arg |-> resp,
                     result |-> LookupErr("request failed")]
          \/ ret' = [op |-> "lookup_map", arg |-> resp,
                     result |-> lookup_map(resp)]
    /\ UNCHANGED <<engine, pages, yielded, outstanding, failed, tampered,
                   failedReq, startedAt, fetched, lastPage, abandoned,
                   written>>

NextLookup == LookupMap

SpecLookup == InitRetweets /\ [][NextLookup]_vars

(***************************************************************************)
(* Properties.                                                             *)
(***************************************************************************)
RECURSIVE ItemsThrough(_)
\* the items of pages 1..n, page after page
ItemsThrough(n) == IF n = 0 THEN << >> ELSE ItemsThrough(n - 1) \o PageItems(n)
AllItems == ItemsThrough(PageCount)
AllNonEmpty == \A i \in 1..PageCount : pages[i] >= 1
IsPrefix(a, b) == Len(a) <= Len(b) /\ a = SubSeq(b, 1, Len(a))
ReturnedEnd == ret.op = "poll_next" /\ ret.kind = "End"

\* C1: on a listing whose pages all have items, with no failed fetch and no
\* written cursor, the items pulled since construction are at every moment
\* the first items of the concatenation of the pages, in page order and
\* in-page order, and a pull returns end-of-sequence only after all of them
\* were yielded, each exactly once.
C1_ForwardProgress ==
    (AllNonEmpty /\ ~failed /\ ~tampered) =>
        /\ IsPrefix(yielded, AllItems)
        /\ ReturnedEnd => yielded = AllItems

\* a walk over a listing of MaxPages pages of MaxItems items has ended
C1_Witness ==
    /\ AllNonEmpty /\ ~failed /\ ~tampered
    /\ PageCount = MaxPages
    /\ \A i \in 1..PageCount : pages[i] = MaxItems
    /\ ReturnedEnd
    /\ yielded = AllItems

PullReturned(kind) == Pull /\ ret'.kind = kind

\* C2: a pull that returns the error of a failed fetch leaves previous_cursor
\* and next_cursor as they are, which is as they were when the fetch was
\* started unless the caller wrote one of them meanwhile; and the pull after
\* a failed one sends a request with the parameters of the failed request.
C2_ErrorDoesNotAdvance ==
    [][ /\ PullReturned("Err") =>
              /\ previous_cursor' = previous_cursor
              /\ next_cursor' = next_cursor
              /\ startedAt # None =>
                    startedAt = Some(<<previous_cursor', next_cursor'>>)
        /\ (failedReq # None /\ Pull) => ret'.req = failedReq
      ]_vars

\* on an engine that cannot be reset, a pull has sent the third request after
\* one of the two before it failed: the failed request was sent again
C2_Witness ==
    /\ failed /\ ~tampered
    /\ page_size = None
    /\ loader # None
    /\ Unwrap(loader).id >= 3
    /\ ret = PollPendingValue(Some(Unwrap(loader).params))
    /\ STARTING_CURSOR_PARAMETER_NAME \in DOMAIN Unwrap(loader).params
    /\ next_cursor # None
    /\ previous_cursor = None
    /\ Len(yielded) >= 1

\* C3: the requests sent by pulls whose outcome no pull has taken are never
\* more than one, and there is one exactly when the loader holds a fetch; a
\* pull that finds a fetch in the loader sends no request, and when that fetch
\* is unresolved it leaves the very same fetch in the loader.
C3_NoDuplicateFetch ==
    /\ [](outstanding \in {0, 1} /\ (outstanding = 1 <=> loader # None))
    /\ [][ (loader # None /\ Pull) =>
              /\ sent' = sent
              /\ ret'.req = None
              /\ Unwrap(loader).result = None =>
                    (loader' = loader /\ ret'.kind = "Pending")
         ]_vars

\* a pull has found the fetch pending and returned Pending without sending
C3_Witness ==
    /\ loader # None
    /\ Unwrap(loader).result = None
    /\ ret = PollPendingValue(None)
    /\ outstanding = 1

\* C4: a pull returns end-of-sequence only when the last fetched page had no
\* next cursor and its items are all drained; in particular the pull that
\* receives an empty page with a next cursor does not return end-of-sequence.
C4_EmptyPageContinuation ==
    (ReturnedEnd /\ ~tampered) => (next_cursor = None /\ iter = Some(<< >>))

\* C5: once a pull has returned end-of-sequence, the next pull returns
\* end-of-sequence too and sends no request.
C5_TerminalAbsorbing ==
    [][ (ReturnedEnd /\ Pull) => (ret'.kind = "End" /\ sent' = sent) ]_vars

\* the request of a walk's first page with n items a page
FirstPageRequest(n) ==
    AddParam(IF params_base = None THEN EmptyParams ELSE Unwrap(params_base),
             COUNT_PARAMETER_NAME, ToString(n))

\* C6: with_page_size(n) on an engine that has a page size leaves, from any
\* state, page_size = n, no previous and no next cursor, no buffered items and
\* no loader; the pull after it requests the page without starting cursor and
\* with count n, and the first item pulled after it is the first item of
\* page 1.
C6_PageSizeReset ==
    /\ [][ (WithPageSize /\ page_size # None) =>
              /\ page_size' = Some(ret'.arg)
              /\ previous_cursor' = None
              /\ next_cursor' = None
              /\ iter' = None
              /\ loader' = None ]_vars
    /\ [][ (ret.op = "with_page_size" /\ page_size # None /\ Pull) =>
              ret' = PollPendingValue(Some(FirstPageRequest(ret.arg))) ]_vars
    /\ []( ( /\ page_size # None
             /\ Unwrap(page_size) \in PageSizeArgs
             /\ ~tampered
             /\ pages[1] >= 1
             /\ yielded # << >> ) => yielded[1] = PageItems(1)[1] )

\* the third request, sent after a reset to page size 5, has brought the
\* first item of page 1
C6_Witness ==
    /\ page_size = Some(5)
    /\ ~tampered
    /\ ret.op = "poll_next" /\ ret.kind = "Item"
    /\ Unwrap(ret.item).rate_limit_status >= 3
    /\ Unwrap(ret.item).response = PageItems(1)[1]
    /\ yielded = << PageItems(1)[1] >>

\* C7: with_page_size on an engine without page size changes no field of the
\* engine: the page size stays absent, the cursors, the buffered items and the
\* loader stay as they are; an absent page size stays absent, and no request
\* sent while it is absent carries the count parameter.
C7_PageSizeNoOp ==
    /\ [][ (WithPageSize /\ page_size = None) => UNCHANGED engine ]_vars
    /\ [][ page_size = None => page_size' = None ]_vars
    /\ [][ (page_size = None /\ sent' # sent) =>
              COUNT_PARAMETER_NAME \notin DOMAIN Unwrap(ret'.req) ]_vars

\* with_page_size has returned on an engine without page size that has a
\* buffered item and a next cursor
C7_Witness ==
    /\ ret.op = "with_page_size"
    /\ page_size = None
    /\ next_cursor # None
    /\ iter # None
    /\ Unwrap(iter) # << >>

\* C8: call() sends exactly one request and changes no field of the engine,
\* whether it succeeds or fails; a call() right after a call() sends the same
\* request.
C8_CallDoesNotMutate ==
    /\ [][ ManualCall => (sent' = sent + 1 /\ UNCHANGED engine) ]_vars
    /\ [][ (ret.op = "call" /\ ManualCall) => ret'.req = ret.req ]_vars

\* call() has failed on an engine that has a fetch in the loader and a next
\* cursor
C8_Witness ==
    /\ ret.op = "call" /\ ret.kind = "Err"
    /\ loader # None
    /\ next_cursor # None

\* C9: the parameters of every request, sent by call() or by a pull, are the
\* base parameters unchanged, the starting cursor exactly when next_cursor is
\* present and then with its value, the count exactly when page_size is
\* present and then with its value, and nothing else.
C9_RequestParameters ==
    [][ sent' # sent =>
          LET p == Unwrap(ret'.req)
              base == IF params_base = None THEN EmptyParams
                      ELSE Unwrap(params_base)
          IN  /\ DOMAIN p = DOMAIN base
                    \cup (IF next_cursor # None
                          THEN {STARTING_CURSOR_PARAMETER_NAME} ELSE {})
                    \cup (IF page_size # None
                          THEN {COUNT_PARAMETER_NAME} ELSE {})
              /\ \A k \in DOMAIN base : p[k] = base[k]
              /\ next_cursor # None =>
                    p[STARTING_CURSOR_PARAMETER_NAME]
                        = ToString(Unwrap(next_cursor))
              /\ page_size # None =>
                    p[COUNT_PARAMETER_NAME] = ToString(Unwrap(page_size))
      ]_vars

\* call() has sent a request that carries a starting cursor and a count
C9_Witness ==
    /\ ret.req # None
    /\ STARTING_CURSOR_PARAMETER_NAME \in DOMAIN Unwrap(ret.req)
    /\ COUNT_PARAMETER_NAME \in DOMAIN Unwrap(ret.req)
    /\ ret.op = "call"

\* C10: a pull that finds the loader's fetch failed returns that fetch's
\* error, sends no request, leaves the loader empty and leaves the buffered
\* items as they are; and a pull returns an error only by taking the failed
\* fetch out of the loader, so no failure is returned twice.
C10_ErrorDelivered ==
    /\ [][ ( /\ Pull
             /\ loader # None
             /\ Unwrap(loader).result # None
             /\ ~Unwrap(Unwrap(loader).result).ok ) =>
              /\ ret' = PollReadyErr(Unwrap(loader).id)
              /\ sent' = sent
              /\ loader' = None
              /\ iter' = iter ]_vars
    /\ [][ PullReturned("Err") =>
              /\ loader # None
              /\ Unwrap(loader).result = Some(Err(ret'.err))
              /\ loader' = None ]_vars

\* the fetch of a later page failed and a pull has returned its error
C10_Witness ==
    /\ ret.op = "poll_next" /\ ret.kind = "Err"
    /\ ret.err >= 2
    /\ loader = None
    /\ iter = Some(<< >>)
    /\ next_cursor # None
    /\ ~tampered

\* C11: on a listing whose pages all have items, when fetches have failed and
\* no cursor was written, the items pulled since construction (the error
\* results left out) are at every moment the first items of the concatenation
\* of the pages, and a pull returns end-of-sequence only after all of them
\* were yielded: a failed fetch makes no item skipped and no item repeated.
C11_RestartableOnError ==
    (AllNonEmpty /\ failed /\ ~tampered) =>
        /\ IsPrefix(yielded, AllItems)
        /\ ReturnedEnd => yielded = AllItems

\* on an engine that cannot be reset, a walk over MaxPages pages has ended
\* after a fetch failed and was sent again
C11_Witness ==
    /\ AllNonEmpty /\ failed /\ ~tampered
    /\ page_size = None
    /\ PageCount = MaxPages
    /\ fetched > PageCount
    /\ ReturnedEnd
    /\ yielded = AllItems

\* a pull takes the page of a fetch that has succeeded
TakesPage ==
    /\ loader # None
    /\ Unwrap(loader).result # None
    /\ Unwrap(Unwrap(loader).result).ok
    /\ Pull

\* C12: the pull that takes a fetched page returns or buffers each of the
\* page's items, in order, with the rate-limit snapshot that came with that
\* page; and a buffered item changes in no step, whatever is fetched later: it
\* stays buffered as it is until a pull returns it as it is.
C12_ItemMetadata ==
    /\ [][ TakesPage =>
              LET resp == Unwrap(Unwrap(loader).result).resp
                  got == (IF ret'.kind = "Item" THEN ret'.item ELSE << >>)
                            \o Unwrap(iter')
              IN  /\ Len(got) = Len(resp.response.items)
                  /\ \A k \in 1..Len(got) :
                        /\ got[k].rate_limit_status = resp.rate_limit_status
                        /\ got[k].response = resp.response.items[k] ]_vars
    /\ [][ (iter # None /\ iter' # None /\ ~TakesPage) =>
              \/ iter' = iter
              \/ /\ PullReturned("Item")
                 /\ Unwrap(iter) = ret'.item \o Unwrap(iter') ]_vars

\* a pull has returned the first item of a page of two, both with the
\* snapshot of the page's request, after a later request was sent
C12_Witness ==
    /\ ret.op = "poll_next" /\ ret.kind = "Item"
    /\ iter # None
    /\ Len(Unwrap(iter)) = 1
    /\ Unwrap(iter)[1].rate_limit_status = Unwrap(ret.item).rate_limit_status
    /\ Unwrap(ret.item).rate_limit_status < sent

\* the states the engine is described by: a fetch is pending, the buffer has
\* no item left, the next cursor is present
FetchPending == loader # None
BufferEmpty == IF iter = None THEN TRUE ELSE Unwrap(iter) = << >>
NextPresent == next_cursor # None
ExactlyOne(cases) == Cardinality({i \in DOMAIN cases : cases[i]}) = 1

\* C13: in every reachable state exactly one of these holds: (1) no fetch
\* pending and the buffer has items; (2) no fetch pending, buffer empty and
\* next cursor present; (3) a fetch is pending; (4) buffer empty and next
\* cursor absent.
C13_StateInvariant ==
    ExactlyOne(<< ~FetchPending /\ ~BufferEmpty,
                  ~FetchPending /\ BufferEmpty /\ NextPresent,
                  FetchPending,
                  BufferEmpty /\ ~NextPresent >>)

\* C13, amended: in every reachable state exactly one of these holds: (1) no
\* fetch pending and the buffer has items; (2) no fetch pending, buffer empty
\* and next cursor present; (3) a fetch is pending, and then the buffer is
\* empty, the next cursor present or absent; (4) no fetch pending, buffer
\* empty and next cursor absent.
C13_StateCases ==
    ExactlyOne(<< ~FetchPending /\ ~BufferEmpty,
                  ~FetchPending /\ BufferEmpty /\ NextPresent,
                  FetchPending /\ BufferEmpty,
                  ~FetchPending /\ BufferEmpty /\ ~NextPresent >>)

\* the fetch of the first page is pending: nothing is buffered and there is
\* no next cursor
C13_Witness ==
    /\ FetchPending
    /\ Unwrap(loader).result = None
    /\ iter = None
    /\ ~NextPresent
    /\ ~tampered

\* C14: when the page last received had no next cursor and its items are all
\* yielded, a pull returns end-of-sequence and sends no request; so on a
\* listing whose pages all have items, with no failed fetch and no written
\* cursor, the pulls of a walk never send more requests than there are pages,
\* and exactly as many when the walk has ended.
C14_EndWithoutFetch ==
    /\ [][ ( /\ ~tampered
             /\ lastPage >= 1
             /\ RawPage(lastPage).next_cursor = 0
             /\ loader = None
             /\ iter = Some(<< >>)
             /\ Pull ) => (ret' = PollReadyNone /\ sent' = sent) ]_vars
    /\ []( (AllNonEmpty /\ ~failed /\ ~tampered) =>
              /\ fetched <= PageCount
              /\ ReturnedEnd => fetched = PageCount )

\* on an engine that cannot be reset, a walk over MaxPages pages has ended
\* and the transport has received MaxPages requests in all
C14_Witness ==
    /\ AllNonEmpty /\ ~failed /\ ~tampered
    /\ page_size = None
    /\ PageCount = MaxPages
    /\ ReturnedEnd
    /\ lastPage = PageCount
    /\ fetched = PageCount
    /\ sent = PageCount

\* C15: the pull that takes a fetched page leaves previous_cursor absent
\* exactly when the page's raw previous_cursor field is 0 and otherwise
\* holding the raw value, and next_cursor likewise for the raw next_cursor
\* field; and once a page whose raw next_cursor is 0 is drained, with no
\* cursor written, a pull sends no request.
C15_ZeroCollapsing ==
    /\ [][ TakesPage =>
              LET page == Unwrap(Unwrap(loader).result).resp.response
              IN  /\ (previous_cursor' = None) <=> (page.previous_cursor = 0)
                  /\ page.previous_cursor # 0 =>
                        previous_cursor' = Some(page.previous_cursor)
                  /\ (next_cursor' = None) <=> (page.next_cursor = 0)
                  /\ page.next_cursor # 0 =>
                        next_cursor' = Some(page.next_cursor) ]_vars
    /\ [][ ( /\ ~tampered
             /\ lastPage >= 1
             /\ RawPage(lastPage).next_cursor = 0
             /\ BufferEmpty
             /\ Pull ) => sent' = sent ]_vars

\* a pull has taken the last page of two: its raw previous_cursor is not 0
\* and is held, its raw next_cursor is 0 and next_cursor is absent
C15_Witness ==
    /\ ret.op = "poll_next" /\ ret.kind \in {"Item", "End"}
    /\ ~tampered
    /\ lastPage = PageCount
    /\ RawPage(lastPage).previous_cursor # 0
    /\ previous_cursor = Some(RawPage(lastPage).previous_cursor)
    /\ RawPage(lastPage).next_cursor = 0
    /\ next_cursor = None

\* C16: the request of retweets_of carries a count parameter that names a
\* number from 1 to 100: the caller's count when that is from 1 to 100, and
\* 100 when the caller's count is 0 or more than 100.
C16_RetweetsCount ==
    ret.op = "retweets_of" =>
        LET p == Unwrap(ret.req)
        IN  /\ "count" \in DOMAIN p
            /\ p["count"] \in {ToString(n) : n \in 1..100}
            /\ ret.arg \in 1..100 => p["count"] = ToString(ret.arg)
            /\ (ret.arg = 0 \/ ret.arg > 100) => p["count"] = ToString(100)

\* retweets_of was called with count 0 and has sent count 100
C16_Witness ==
    /\ ret.op = "retweets_of"
    /\ ret.arg = 0
    /\ Unwrap(ret.req)["count"] = ToString(100)

\* C17: a pull returns Pending exactly when it leaves an unresolved fetch in
\* the loader; such a pull has sent at most one request, and none when it
\* found a fetch in the loader, which is then the fetch it leaves there; it
\* changes neither cursor and no buffered item.  A pull that finds a buffered
\* item, or a resolved fetch in the loader, does not return Pending.
C17_SuspensionOnlyInFlight ==
    [][ Pull =>
          /\ (ret'.kind = "Pending")
                <=> (loader' # None /\ Unwrap(loader').result = None)
          /\ ret'.kind = "Pending" =>
                /\ previous_cursor' = previous_cursor
                /\ next_cursor' = next_cursor
                /\ iter' = iter
                /\ sent' \in {sent, sent + 1}
                /\ loader # None => (loader' = loader /\ sent' = sent)
                /\ loader = None => Unwrap(loader').id = sent'
          /\ (loader = None /\ ~BufferEmpty) => ret'.kind # "Pending"
          /\ (loader # None /\ Unwrap(loader).result # None) =>
                ret'.kind # "Pending"
      ]_vars

\* a pull that found the buffer drained and a next cursor has sent the request
\* of the next page and returned Pending
C17_Witness ==
    /\ ret.op = "poll_next" /\ ret.kind = "Pending"
    /\ ret.req # None
    /\ loader # None
    /\ Unwrap(loader).result = None
    /\ Unwrap(loader).id = sent
    /\ iter = Some(<< >>)
    /\ next_cursor # None

\* C18: while no cursor was written since construction or reset, the request
\* a pull sends carries no starting cursor when no page was received yet, and
\* otherwise carries the raw next_cursor of the page last received; and the
\* page a pull receives is the one after the page last received, so no page
\* is received twice.
C18_ForwardFetching ==
    /\ [][ (~tampered /\ sent' # sent /\ Pull) =>
              LET p == Unwrap(ret'.req)
              IN  IF lastPage = 0
                  THEN STARTING_CURSOR_PARAMETER_NAME \notin DOMAIN p
                  ELSE /\ STARTING_CURSOR_PARAMETER_NAME \in DOMAIN p
                       /\ p[STARTING_CURSOR_PARAMETER_NAME]
                             = ToString(RawPage(lastPage).next_cursor) ]_vars
    /\ [][ (~tampered /\ TakesPage) => lastPage' = lastPage + 1 ]_vars

\* a walk in which one fetch failed and was sent again has received page 1
\* and then page 2, with three requests
C18_Witness ==
    /\ ~tampered /\ failed
    /\ lastPage = 2
    /\ fetched = 3
    /\ previous_cursor = Some(RawPage(2).previous_cursor)
    /\ ret.op = "poll_next" /\ ret.kind \in {"Item", "End"}

\* C19: construction sends no request and leaves the loader empty;
\* with_page_size sends no request and starts no fetch; only a pull puts a
\* fetch into the loader, and a pull sends a request only when it finds the
\* loader empty and no item buffered.  A pull that finds a buffered item
\* returns that item and sends no request.
C19_Laziness ==
    /\ [](ret.op = "new" => (sent = 0 /\ loader = None))
    /\ [][ WithPageSize =>
              (sent' = sent /\ (loader' = None \/ loader' = loader)) ]_vars
    /\ [][ (loader = None /\ loader' # None) => Pull ]_vars
    /\ [][ (sent' # sent /\ Pull) => (loader = None /\ BufferEmpty) ]_vars
    /\ [][ (loader = None /\ ~BufferEmpty /\ Pull) =>
              /\ ret' = PollReadyItem(Head(Unwrap(iter)))
              /\ sent' = sent
              /\ loader' = None ]_vars

\* the last buffered item of page 1 was pulled while page 2 is still to be
\* fetched: one request has been sent in all, and the loader is empty
C19_Witness ==
    /\ ret.op = "poll_next" /\ ret.kind = "Item"
    /\ PageCount = 2
    /\ pages[1] = 2
    /\ Unwrap(ret.item).response = PageItems(1)[2]
    /\ iter = Some(<< >>)
    /\ next_cursor # None
    /\ loader = None
    /\ sent = 1

\* C20: on an engine with no results, no loader and both cursors absent, as
\* it is after construction or after a reset by with_page_size, a pull does
\* not return end-of-sequence: it sends one request, which carries no
\* starting cursor, leaves it in the loader and returns Pending.
C20_IdleNotTerminal ==
    [][ ( /\ iter = None
          /\ loader = None
          /\ previous_cursor = None
          /\ next_cursor = None
          /\ Pull ) =>
          /\ ret'.kind = "Pending"
          /\ sent' = sent + 1
          /\ ret'.req # None
          /\ STARTING_CURSOR_PARAMETER_NAME \notin DOMAIN Unwrap(ret'.req)
          /\ loader' # None
          /\ Unwrap(loader').params = Unwrap(ret'.req)
      ]_vars

\* the first pull after a reset by with_page_size has sent a request without
\* starting cursor, the second request or a later one of the behaviour
C20_Witness ==
    /\ page_size # None
    /\ Unwrap(page_size) \in PageSizeArgs
    /\ ~tampered
    /\ ret.op = "poll_next" /\ ret.kind = "Pending"
    /\ ret.req # None
    /\ STARTING_CURSOR_PARAMETER_NAME \notin DOMAIN Unwrap(ret.req)
    /\ iter = None
    /\ next_cursor = None
    /\ fetched = 1
    /\ sent >= 2

\* a page's token as the engine holds it: absent for the raw value 0
PageToken(raw) == IF raw = 0 THEN None ELSE Some(raw)

\* C21: the pull that takes a fetched page sets previous_cursor to the page's
\* previous token and next_cursor to the page's next token, whatever they
\* held before, absent included; and no other pull, no call() and no step of
\* the transport changes either cursor.
C21_TokensReplaced ==
    /\ [][ TakesPage =>
              LET page == Unwrap(Unwrap(loader).result).resp.response
              IN  /\ previous_cursor' = PageToken(page.previous_cursor)
                  /\ next_cursor' = PageToken(page.next_cursor) ]_vars
    /\ [][ ((Pull /\ ~TakesPage) \/ ManualCall \/ Resolve) =>
              UNCHANGED <<previous_cursor, next_cursor>> ]_vars

\* a clean walk has taken page 2 of two: the next cursor that was present is
\* absent now, and the previous cursor that was absent is present
C21_Witness ==
    /\ ~tampered /\ ~failed
    /\ PageCount = 2
    /\ lastPage = 2
    /\ fetched = 2
    /\ ret.op = "poll_next" /\ ret.kind \in {"Item", "End"}
    /\ next_cursor = None
    /\ previous_cursor = PageToken(RawPage(2).previous_cursor)
    /\ previous_cursor # None

\* C22: with_page_size(n) on an engine that has a page size and a fetch in
\* the loader leaves the loader empty, both cursors absent and nothing
\* buffered; the request of a dropped fetch is never again the loader's, no
\* buffered or returned item comes from its response and no pull returns its
\* error; and the pull right after such a reset sends a request without
\* starting cursor and with count n.
C22_ResetAbandonsFetch ==
    /\ [][ (page_size # None /\ loader # None /\ WithPageSize) =>
              /\ loader' = None
              /\ iter' = None
              /\ previous_cursor' = None
              /\ next_cursor' = None
              /\ Unwrap(loader).id \in abandoned' ]_vars
    /\ [](loader # None => Unwrap(loader).id \notin abandoned)
    /\ [](iter # None =>
            \A k \in 1..Len(Unwrap(iter)) :
                Unwrap(iter)[k].rate_limit_status \notin abandoned)
    /\ []((ret.op = "poll_next" /\ ret.kind = "Item") =>
            Unwrap(ret.item).rate_limit_status \notin abandoned)
    /\ []((ret.op = "poll_next" /\ ret.kind = "Err") =>
            ret.err \notin abandoned)
    /\ [][ (ret.op = "with_page_size" /\ abandoned # {} /\ Pull) =>
              /\ sent' = sent + 1
              /\ ret'.kind = "Pending"
              /\ STARTING_CURSOR_PARAMETER_NAME \notin DOMAIN Unwrap(ret'.req)
              /\ Unwrap(ret'.req)[COUNT_PARAMETER_NAME] = ToString(ret.arg)
         ]_vars

\* after a reset to page size 5 dropped the first request while in flight, a
\* pull has received page 1 from the request sent after the reset
C22_Witness ==
    /\ 1 \in abandoned
    /\ page_size = Some(5)
    /\ ~tampered
    /\ ret.op = "poll_next" /\ ret.kind = "Item"
    /\ Unwrap(ret.item).rate_limit_status = 2
    /\ Unwrap(ret.item).response = PageItems(1)[1]
    /\ lastPage = 1

\* C23: on a listing whose pages all have items, when the consumer keeps
\* pulling and the transport resolves every request and fails only finitely
\* often, a pull eventually returns end-of-sequence.
C23_Termination == AllNonEmpty => <>ReturnedEnd

\* a walk over MaxPages pages, in which a fetch failed, has ended after
\* MaxFetches requests
C23_Witness ==
    /\ AllNonEmpty /\ failed
    /\ PageCount = MaxPages
    /\ sent = MaxFetches
    /\ fetched = MaxFetches
    /\ lastPage = PageCount
    /\ ReturnedEnd

\* C24: after next_cursor was written with the loader empty, and until a pull
\* takes a page, every request sent, by call() or by a pull, carries the
\* written value as its starting cursor, and none when the written value is
\* absent; the write leaves the buffered items as they are, and a pull that
\* finds one returns it, the first of them, and sends no request.
C24_ManualJump ==
    /\ [][ (written # None /\ sent' # sent /\ (Pull \/ ManualCall)) =>
              LET p == Unwrap(ret'.req)
                  t == Unwrap(written)
              IN  IF t = None
                  THEN STARTING_CURSOR_PARAMETER_NAME \notin DOMAIN p
                  ELSE /\ STARTING_CURSOR_PARAMETER_NAME \in DOMAIN p
                       /\ p[STARTING_CURSOR_PARAMETER_NAME]
                             = ToString(Unwrap(t)) ]_vars
    /\ [][ WriteNextCursor => (iter' = iter /\ sent' = sent) ]_vars
    /\ [][ (written # None /\ ~BufferEmpty /\ Pull) =>
              /\ ret' = PollReadyItem(Head(Unwrap(iter)))
              /\ iter' = Some(Tail(Unwrap(iter)))
              /\ sent' = sent ]_vars

\* after the last page of two was received, next_cursor was written with the
\* cursor of page 2; with the buffer drained, a pull has sent a request that
\* carries that cursor
C24_Witness ==
    /\ PageCount = 2
    /\ lastPage = 2
    /\ written = Some(Some(2))
    /\ iter = Some(<< >>)
    /\ ret.op = "poll_next" /\ ret.kind = "Pending"
    /\ ret.req # None
    /\ Unwrap(ret.req)[STARTING_CURSOR_PARAMETER_NAME] = ToString(2)

\* C25: no step changes link, token or params_base: they are at every moment
\* the link, the token and the base parameters the engine was constructed
\* with; the fetch in the loader was sent to that link with that token, and
\* every request sent carries the base parameters of the construction.
C25_ImmutableConfiguration ==
    /\ [][ UNCHANGED <<link, token, params_base>> ]_vars
    /\ [](/\ token = "token"
          /\ \E e \in Endpoints :
                e.link = link /\ e.params_base = params_base)
    /\ [](loader # None =>
            (Unwrap(loader).link = link /\ Unwrap(loader).token = token))
    /\ [][ (sent' # sent /\ params_base # None) =>
              \A k \in DOMAIN Unwrap(params_base) :
                  /\ k \in DOMAIN Unwrap(ret'.req)
                  /\ Unwrap(ret'.req)[k] = Unwrap(params_base)[k] ]_vars

\* on the engine constructed with base parameters, a pull has failed, a page
\* was received, call() was used and with_page_size has just returned
C25_Witness ==
    /\ link = "statuses/retweeters/ids"
    /\ params_base = Some(AddParam(EmptyParams, "id", ToString(7)))
    /\ ret.op = "with_page_size"
    /\ failed
    /\ lastPage >= 1
    /\ sent > fetched

\* what a pull can return: Pending, end-of-sequence, an item or an error
PullOutcomes ==
    {<<"Pending", 0>>, <<"End", 0>>}
        \cup {<<"Item", 10 * i + k>> : i \in 1..MaxPages, k \in 1..MaxItems}
        \cup {<<"Err", e>> : e \in 1..MaxFetches}
PullGives(o) ==
    /\ Pull
    /\ ret'.kind = o[1]
    /\ o[1] = "Item" => Unwrap(ret'.item).response = o[2]
    /\ o[1] = "Err" => ret'.err = o[2]

\* C26: call() changes nothing of what the next pull returns: whatever a pull
\* can return before a call(), Pending, end-of-sequence, a given item or a
\* given error, it can return after it, and nothing else, as long as the
\* transport accepts another request; and call() leaves the cursors, the
\* loader, the buffered items, the listing and the items pulled so far as
\* they are.
C26_CallTransparent ==
    /\ [][ (ManualCall /\ sent' < MaxFetches) =>
              \A o \in PullOutcomes :
                  (ENABLED PullGives(o)) <=> (ENABLED PullGives(o))' ]_vars
    /\ [][ ManualCall =>
              UNCHANGED <<previous_cursor, next_cursor, loader, iter,
                          pages, yielded>> ]_vars

\* a walk over two pages on an engine that cannot be reset has yielded all
\* items and ended, with one call() made besides the two requests of the pulls
C26_Witness ==
    /\ AllNonEmpty /\ ~failed /\ ~tampered
    /\ page_size = None
    /\ PageCount = 2
    /\ fetched = 2
    /\ sent = 3
    /\ ReturnedEnd
    /\ yielded = AllItems

\* a cursor was written since the fetch in the loader was started
WrittenWhilePending == loader # None /\ startedAt = None

\* C27: a write of next_cursor or previous_cursor made while the loader holds
\* a fetch changes neither that fetch nor its request and sends nothing; a
\* pull that then finds the fetch unresolved leaves it in the loader; and the
\* pull that takes the page of that fetch receives the page the request asked
\* for and sets both cursors to that page's tokens, the written cursor too.
C27_WriteRace ==
    /\ [][ ((WriteNextCursor \/ WritePreviousCursor) /\ loader # None) =>
              (loader' = loader /\ sent' = sent) ]_vars
    /\ [][ (WrittenWhilePending /\ Unwrap(loader).result = None /\ Pull) =>
              (loader' = loader /\ sent' = sent) ]_vars
    /\ [][ (WrittenWhilePending /\ TakesPage) =>
              LET page == Unwrap(Unwrap(loader).result).resp.response
              IN  /\ page = RawPage(RequestedPage(Unwrap(loader).params))
                  /\ previous_cursor' = PageToken(page.previous_cursor)
                  /\ next_cursor' = PageToken(page.next_cursor) ]_vars

\* previous_cursor was written while the request of page 1 was in flight, and
\* the request has succeeded: the next pull takes page 1, whose previous
\* token is absent
C27_Witness ==
    /\ ret.op = "write"
    /\ WrittenWhilePending
    /\ Unwrap(loader).result # None
    /\ Unwrap(Unwrap(loader).result).ok
    /\ STARTING_CURSOR_PARAMETER_NAME \notin DOMAIN Unwrap(loader).params
    /\ previous_cursor # None
    /\ lastPage = 0

\* C28: lookup_map returns an error or a complete map.  When the response
\* has no object under "id" it fails with InvalidResponse; when a key of the
\* object is no unsigned integer it fails, with InvalidResponse when every
\* value is null or a tweet; when a value is neither null nor a tweet it
\* fails; otherwise it returns a map with exactly one entry per key of the
\* object, holding None for a null value and the tweet for any other.
C28_LookupMapAllOrNothing ==
    (ret.op = "lookup_map" /\ ret.result.err # "request failed") =>
        LET resp == ret.arg
            obj == resp.obj
            res == ret.result
            badKey == \E i \in 1..Len(obj) : ParseU64(obj[i][1]) = None
            badVal == \E i \in 1..Len(obj) :
                         /\ ~IsNull(obj[i][2])
                         /\ TweetDeserialize(obj[i][2]) = None
        IN  IF resp.id # "object"
            THEN /\ ~res.ok
                 /\ res.err
                      = "InvalidResponse: unexpected response for lookup_map"
            ELSE /\ badKey => ~res.ok
                 /\ (badKey /\ ~badVal) =>
                       res.err
                         = "InvalidResponse: could not parse id as integer"
                 /\ badVal => ~res.ok
                 /\ (~badKey /\ ~badVal) =>
                       /\ res.ok
                       /\ Cardinality(DOMAIN res.map) = Len(obj)
                       /\ \A i \in 1..Len(obj) :
                             LET id == Unwrap(ParseU64(obj[i][1]))
                             IN  /\ id \in DOMAIN res.map
                                 /\ res.map[id]
                                      = IF IsNull(obj[i][2]) THEN None
                                        ELSE TweetDeserialize(obj[i][2])

====
